---- MODULE Spec2Model ----
(***************************************************************************)
(* Model of the /stream/<file_id> relay of main.py (stream_file and its    *)
(* inner generator stream_content), together with the part of app_state    *)
(* the handler reads.                                                      *)
(***************************************************************************)
EXTENDS Integers, Sequences, FiniteSets, TLC

(***************************************************************************)
(* Bounds of the model.                                                    *)
(***************************************************************************)
\* longest upstream body, counted in chunks handed out by aiter_bytes
MaxChunks == 2
\* number of distinct byte values a chunk can carry
MaxByte == 2
\* number of uploads that get stored in one run
MaxUploads == 3
\* number of content records inserted in one run
MaxContent == 2

(***************************************************************************)
(* Program constants.                                                      *)
(***************************************************************************)
\* TELEGRAM_FILE_SIZE_LIMIT = 20 * 1024 * 1024
TELEGRAM_FILE_SIZE_LIMIT == 20 * 1024 * 1024

\* Python's None
None == "None"

(***************************************************************************)
(* Strings are sequences of one-character strings, so that strip() and the *)
(* shape of a Range header are computed and not assumed.                   *)
(***************************************************************************)
Whitespace == {" ", "\t"}

RECURSIVE LStrip(_)
LStrip(s) ==
    IF s = << >> THEN << >>
    ELSE IF Head(s) \in Whitespace THEN LStrip(Tail(s))
    ELSE s

RECURSIVE RStrip(_)
RStrip(s) ==
    IF s = << >> THEN << >>
    ELSE IF s[Len(s)] \in Whitespace THEN RStrip(SubSeq(s, 1, Len(s) - 1))
    ELSE s

\* str.strip()
Strip(s) == RStrip(LStrip(s))

\* dict.get(key, default)
DictGet(d, k, default) == IF k \in DOMAIN d THEN d[k] ELSE default

\* request.headers.get('Range', ''): a request either carries the header or not
HeadersGetRange(request, default) ==
    IF request.has_range THEN request.range ELSE default

(***************************************************************************)
(* get_media_mime_type.  A filename is the sequence of its '.'-separated   *)
(* parts, so rsplit('.', 1)[1] is the last part when there are two or more.*)
(***************************************************************************)
Lower(ext) ==
    CASE ext = "MP4" -> "mp4"
      [] ext = "MKV" -> "mkv"
      [] OTHER -> ext

\* mimetypes.guess_type: the standard table, which knows .mp4 in either case
\* and has audio/x-wav for .wav
GuessType(filename) ==
    IF Len(filename) > 1 /\ Lower(filename[Len(filename)]) = "mp4"
    THEN "video/mp4"
    ELSE IF Len(filename) > 1 /\ Lower(filename[Len(filename)]) = "wav"
    THEN "audio/x-wav"
    ELSE None

mime_map ==
    [mp4 |-> "video/mp4", avi |-> "video/x-msvideo", mkv |-> "video/x-matroska",
     mov |-> "video/quicktime", webm |-> "video/webm", mp3 |-> "audio/mpeg",
     wav |-> "audio/wav"]

\* variant of get_media_mime_type whose default is a video type
get_media_mime_typeVideoDefault(filename) ==
    LET mime_type == GuessType(filename)
        ext == IF Len(filename) > 1 THEN Lower(filename[Len(filename)]) ELSE ""
    IN  IF mime_type # None THEN mime_type
        ELSE DictGet(mime_map, ext, "video/mp4")

get_media_mime_type(filename) ==
    LET mime_type == GuessType(filename)
        ext == IF Len(filename) > 1 THEN Lower(filename[Len(filename)]) ELSE ""
    IN  IF mime_type # None THEN mime_type
        ELSE DictGet(mime_map, ext, "application/octet-stream")

(***************************************************************************)
(* Exceptions.  quart.abort(code) raises an HTTPException, which is a      *)
(* subclass of Exception; the framework turns an HTTPException that leaves *)
(* the handler into a response with its code, anything else into a 500.    *)
(***************************************************************************)
\* text is what str(e) gives: the standard description of an HTTP status, or
\* the internal message of any other exception
Abort(code) == [class |-> "HTTPException", code |-> code, text |-> "standard"]
Raised(class) == [class |-> class, code |-> 0, text |-> "internal"]

\* the classes an `except Exception` clause catches
ExceptionSubclasses ==
    {"HTTPException", "PyMongoError", "KeyError", "TelegramError",
     "AttributeError", "HTTPError"}

\* variant of StreamFileExcept that passes str(e) on: abort(500, str(e))
StreamFileExceptEcho(e) ==
    IF e.class \in ExceptionSubclasses
    THEN [class |-> "HTTPException", code |-> 500, text |-> e.text]
    ELSE e

\* lines 666-668: except Exception as e: log; abort(500)
StreamFileExcept(e) ==
    IF e.class \in ExceptionSubclasses THEN Abort(500) ELSE e

\* the status the client gets when exception e leaves the handler
StatusOfException(e) ==
    IF e.class = "HTTPException" THEN e.code ELSE 500

\* the text of the error page when exception e leaves the handler: the
\* description of an HTTPException, the standard page for anything else
TextOfException(e) ==
    IF e.class = "HTTPException" THEN e.text ELSE "standard"

\* status of a request whose try-block raised e
StatusAfterRaise(e) == StatusOfException(StreamFileExcept(e))

\* error page of a request whose try-block raised e
TextAfterRaise(e) == TextOfException(StreamFileExcept(e))

(***************************************************************************)
(* Inputs: identifiers, stored records, Range headers, upstream replies.   *)
(***************************************************************************)
EmptyDict == [k \in {} |-> None]

Ids == {"abc", "xyz"}

Reqs == {"r1"}

\* documents of files_collection as handle_document writes them and find_one
\* projects them (filename, file_size); file_size is 0 when Telegram gave none
SampleRecords ==
    { [filename |-> <<"movie", "mp4">>, file_size |-> 1000],
      [filename |-> <<"clip", "MKV">>, file_size |-> 100],
      [filename |-> <<"old", "avi">>, file_size |-> 0],
      [filename |-> <<"movie", "mp4">>, file_size |-> TELEGRAM_FILE_SIZE_LIMIT],
      [filename |-> <<"clip", "mkv">>, file_size |-> TELEGRAM_FILE_SIZE_LIMIT + 1] }

\* the contents files_collection can have: any documents under any of the ids
Collections ==
    UNION { [S -> SampleRecords] : S \in SUBSET Ids }

\* app_state['files_collection'] before and after initialize_mongodb set it
NoCollection == [is_none |-> TRUE, docs |-> EmptyDict]
Collection(c) == [is_none |-> FALSE, docs |-> c]

\* file_path values get_file can return (Telegram may give none)
Urls == {"https://api.telegram.org/file/abc"}

DigitChars == <<"0", "1", "2", "3", "4", "5", "6", "7", "8", "9">>

\* decimal representation of a natural number
RECURSIVE Digits(_)
Digits(n) ==
    IF n < 10 THEN <<DigitChars[n + 1]>>
    ELSE Digits(n \div 10) \o <<DigitChars[(n % 10) + 1]>>

BytesEq == <<"b", "y", "t", "e", "s", "=">>

\* byte positions a client asks for
Positions == {0, 5, 99, 200, 299, 2000}

ClosedRanges == { BytesEq \o Digits(s) \o <<"-">> \o Digits(e) : s, e \in Positions }
OpenRanges == { BytesEq \o Digits(s) \o <<"-">> : s \in Positions }
OtherRanges ==
    { << >>,
      <<" ">>,
      <<"a", "b", "c">>,
      BytesEq \o <<"-", "5">>,
      <<"i", "t", "e", "m", "s", "=", "0", "-", "5">>,
      <<" ">> \o BytesEq \o <<"5", "-", "9", "9", " ">> }

\* the Range part of a request: no header, or a header with some text
Requests ==
    { [has_range |-> FALSE, range |-> << >>] } \cup
    { [has_range |-> TRUE, range |-> h] :
        h \in ClosedRanges \cup OpenRanges \cup OtherRanges }

\* a chunk is a non-empty run of bytes; one byte stands for the run
Chunks == { <<b>> : b \in 1..MaxByte }

\* upstream bodies, as the chunks aiter_bytes will hand out
Bodies == UNION { [1..n -> Chunks] : n \in 0..MaxChunks }

(***************************************************************************)
(* State.                                                                  *)
(***************************************************************************)
VARIABLES
    mongo_client,       \* app_state['mongo_client']: None or the client
    db,                 \* app_state['db']: None or the database
    files_collection,   \* app_state['files_collection']: None or a collection
    content_collection, \* app_state['content_collection']: None or a collection
    bot_app,            \* app_state['bot_app']: None or the bot
    webhook_set,        \* app_state['webhook_set']
    webhook_url,        \* app_state['webhook_url']: None or the URL
    req,                \* per request: position in stream_file and its locals
    boot,               \* position and locals of main and the functions it calls
    bot_data,           \* context.bot_data['callbacks'] of the bot
    buttons,            \* the inline keyboards sent to the chat and not yet pressed away
    last                \* the last update or /health request handled, with its outcome

\* the entries of app_state
app_state_vars ==
    <<mongo_client, db, files_collection, content_collection, bot_app,
      webhook_set, webhook_url>>

\* what is outside app_state and the stream requests
bot_vars == <<boot, bot_data, buttons, last>>

vars == <<app_state_vars, req, bot_vars>>

IdleReq ==
    [pc |-> "idle",
     file_id |-> None,
     request |-> [has_range |-> FALSE, range |-> << >>],
     lookup |-> "pending",
     get_file_calls |-> 0,
     file_size |-> 0,
     mime_type |-> None,
     telegram_file_url |-> None,
     range_header |-> << >>,
     status |-> 0,
     headers |-> EmptyDict,
     error_text |-> None,
     upstream_sent |-> FALSE,
     upstream_url |-> None,
     upstream_headers |-> EmptyDict,
     upstream_ok |-> FALSE,
     upstream_open |-> FALSE,
     body |-> << >>,
     nread |-> 0,
     sent |-> << >>,
     stalled |-> FALSE,
     failed |-> FALSE,
     cancelled |-> FALSE]

\* the webhook entries main leaves behind: setup_webhook did not get to set the
\* URL, set it and failed, or set it and verified it
WebhookStates ==
    { [set |-> FALSE, url |-> None],
      [set |-> FALSE, url |-> "https://app.example/hook"],
      [set |-> TRUE, url |-> "https://app.example/hook"] }

\* app_state while the server runs, for the given collections and webhooks;
\* initialize_mongodb sets the four database entries together
InitAppState(collections, webhooks) ==
    /\ files_collection \in collections
    /\ content_collection =
          IF files_collection.is_none THEN NoCollection ELSE Collection(EmptyDict)
    /\ mongo_client = IF files_collection.is_none THEN None ELSE "MongoClient"
    /\ db = IF files_collection.is_none THEN None ELSE "Database"
    /\ bot_app \in {None, "bot"}
    /\ \E w \in webhooks : webhook_set = w.set /\ webhook_url = w.url

\* main is not followed while the relay is looked at: the server runs
NoBoot == [pc |-> "serve", attempt |-> 0, sleeps |-> << >>, returned |-> None,
           domain |-> None, calls |-> << >>, info_url |-> None,
           exit_code |-> << >>]

\* no update and no /health request handled yet
NoOp == [op |-> None]

\* the bot has handled nothing
InitBot ==
    /\ bot_data = EmptyDict
    /\ buttons = {}
    /\ last = NoOp

Init ==
    /\ InitAppState({NoCollection} \cup { Collection(c) : c \in Collections },
                    WebhookStates)
    /\ req = [r \in Reqs |-> IdleReq]
    /\ boot = NoBoot
    /\ InitBot

\* variant of StreamFrame for a handler that clears app_state['webhook_url']
StreamFrameClearsWebhook ==
    /\ webhook_url' = None
    /\ UNCHANGED <<mongo_client, db, files_collection, content_collection,
                   bot_app, webhook_set, bot_vars>>

\* what a step of stream_file or stream_content does to app_state: nothing
StreamFrame == UNCHANGED <<app_state_vars, bot_vars>>

(***************************************************************************)
(* stream_file, lines 591-668.                                             *)
(***************************************************************************)
\* what find_one returns when no document matches (None)
NoDocument == EmptyDict

\* variant of find_one that queries with an empty filter: any document
find_oneAnyDocument(collection, file_id) ==
    IF DOMAIN collection.docs # {}
    THEN collection.docs[CHOOSE i \in DOMAIN collection.docs : TRUE]
    ELSE NoDocument

\* find_one({'_id': file_id}, ...): the document or None
find_one(collection, file_id) ==
    IF file_id \in DOMAIN collection.docs THEN collection.docs[file_id]
    ELSE NoDocument

\* `not file_info`
NotDocument(file_info) == DOMAIN file_info = {}

\* variant of ResponseHeaders that forgets Accept-Ranges
ResponseHeadersNoAcceptRanges(mime_type) ==
    ("Content-Type" :> mime_type) @@
    ("Cache-Control" :> "public, max-age=3600") @@
    ("Access-Control-Allow-Origin" :> "*") @@
    ("Transfer-Encoding" :> "chunked")

\* variant of ResponseHeaders that forgets Cache-Control
ResponseHeadersNoCacheControl(mime_type) ==
    ("Content-Type" :> mime_type) @@
    ("Accept-Ranges" :> "bytes") @@
    ("Access-Control-Allow-Origin" :> "*") @@
    ("Transfer-Encoding" :> "chunked")

\* lines 646-653
ResponseHeaders(mime_type) ==
    ("Content-Type" :> mime_type) @@
    ("Accept-Ranges" :> "bytes") @@
    ("Cache-Control" :> "public, max-age=3600") @@
    ("Access-Control-Allow-Origin" :> "*") @@
    ("Transfer-Encoding" :> "chunked")

\* variant of StatusCode that never answers 206
StatusCodeAlways200(range_header) == 200

\* lines 655-658
StatusCode(range_header) ==
    IF range_header # << >> THEN 206 ELSE 200

\* variant of UpstreamHeaders that does not forward the Range header
UpstreamHeadersNoRange(range_header) == EmptyDict

\* lines 631-633: the headers of the upstream request
UpstreamHeaders(range_header) ==
    IF range_header # << >> THEN ("Range" :> range_header) ELSE EmptyDict

\* an exception leaves the try block: the request ends with an error status;
\* lookup records how the look-up of the document went
Fail(r, e, lookup) ==
    req' = [req EXCEPT ![r].pc = "done",
                       ![r].lookup = lookup,
                       ![r].status = StatusAfterRaise(e),
                       ![r].error_text = TextAfterRaise(e)]

\* variant of Respond that keeps the Range header in one place for all
\* requests: it reads the header of the other request in flight, if any
RespondSharedHeader(r, rq, url) ==
    IF url = None
    THEN req' = [req EXCEPT ![r] =
                   [rq EXCEPT !.pc = "done",
                              !.status = StatusAfterRaise(Abort(404)),
                              !.error_text = TextAfterRaise(Abort(404))]]
    ELSE LET others == DOMAIN req \ {r}
             q == IF others = {} THEN r ELSE CHOOSE o \in others : TRUE
             range_header == Strip(HeadersGetRange(req[q].request, << >>))
         IN  req' = [req EXCEPT ![r] =
                       [rq EXCEPT !.pc = "responded",
                                  !.telegram_file_url = url,
                                  !.range_header = range_header,
                                  !.headers = ResponseHeaders(rq.mime_type),
                                  !.status = StatusCode(range_header)]]

\* lines 621-664, once telegram_file_url is known
Respond(r, rq, url) ==
    IF url = None
    THEN req' = [req EXCEPT ![r] =
                   [rq EXCEPT !.pc = "done",
                              !.status = StatusAfterRaise(Abort(404)),
                              !.error_text = TextAfterRaise(Abort(404))]]
    ELSE LET range_header == Strip(HeadersGetRange(rq.request, << >>))
         IN  req' = [req EXCEPT ![r] =
                       [rq EXCEPT !.pc = "responded",
                                  !.telegram_file_url = url,
                                  !.range_header = range_header,
                                  !.headers = ResponseHeaders(rq.mime_type),
                                  !.status = StatusCode(range_header)]]

\* a GET /stream/<file_id> arrives, with its identifier among ids and its
\* Range header among requests; again tells whether r stands for one request
\* or, one after the other, for any number of them
ReceiveFrom(r, ids, requests, again) ==
    /\ req[r].pc \in IF again THEN {"idle", "done"} ELSE {"idle"}
    /\ \E file_id \in ids, request \in requests :
          req' = [req EXCEPT ![r] =
                    [IdleReq EXCEPT !.pc = "start",
                                    !.file_id = file_id,
                                    !.request = request]]
    /\ StreamFrame

Receive(r) == ReceiveFrom(r, Ids, Requests, FALSE)

\* lines 594-615: from the start of the handler to the await of get_file
Resolve(r) ==
    /\ req[r].pc = "start"
    /\ StreamFrame
    /\ IF files_collection.is_none
       THEN Fail(r, Abort(503), "unavailable")
       ELSE \E db_up \in BOOLEAN :
            IF ~db_up
            THEN Fail(r, Raised("PyMongoError"), "error")
            ELSE LET file_info == find_one(files_collection, req[r].file_id)
                 IN  IF NotDocument(file_info)
                     THEN Fail(r, Abort(404), "missing")
                     ELSE LET filename == file_info["filename"]
                              file_size == DictGet(file_info, "file_size", 0)
                              rq == [req[r] EXCEPT
                                       !.lookup = "found",
                                       !.file_size = file_size,
                                       !.mime_type = get_media_mime_type(filename)]
                          IN  IF file_size <= TELEGRAM_FILE_SIZE_LIMIT
                              THEN IF bot_app = None
                                   \* AttributeError, caught at line 618
                                   THEN Respond(r, rq, None)
                                   ELSE req' = [req EXCEPT ![r] =
                                           [rq EXCEPT !.pc = "get_file",
                                                      !.get_file_calls = @ + 1]]
                              ELSE Respond(r, rq, None)

\* variant of GetFileDone that serves a record once: it deletes the document
\* when get_file gave a URL
GetFileDoneOneShot(r) ==
    /\ req[r].pc = "get_file"
    /\ \E url \in Urls \cup {None} :
          /\ Respond(r, req[r], url)
          /\ files_collection' =
                IF url = None \/ files_collection.is_none
                THEN files_collection
                ELSE Collection([i \in DOMAIN files_collection.docs \ {req[r].file_id}
                                   |-> files_collection.docs[i]])
    /\ UNCHANGED <<mongo_client, db, content_collection, bot_app,
                   webhook_set, webhook_url, bot_vars>>

\* lines 615-664: get_file returns a file_path, or raises and is caught
GetFileDone(r) ==
    /\ req[r].pc = "get_file"
    /\ StreamFrame
    /\ \E url \in Urls \cup {None} : Respond(r, req[r], url)

(***************************************************************************)
(* stream_content, lines 629-644: the body generator, which the server     *)
(* runs after the status and headers of the Response have gone out.        *)
(***************************************************************************)
\* variant of UpstreamOpenAfterExit for a client and response opened without
\* `async with` and never closed
UpstreamOpenAfterExitLeak == TRUE

\* whether the upstream client and response are open once control has left
\* the two `async with` blocks of lines 635-636, however it left them
UpstreamOpenAfterExit == FALSE

\* lines 631-637: the upstream GET is sent and answered with a 2xx and one of
\* the bodies
ConnectOkFrom(r, bodies) ==
    /\ req[r].pc = "responded"
    /\ StreamFrame
    /\ \E body \in bodies :
          req' = [req EXCEPT ![r].pc = "streaming",
                             ![r].upstream_sent = TRUE,
                             ![r].upstream_url = req[r].telegram_file_url,
                             ![r].upstream_headers =
                                 UpstreamHeaders(req[r].range_header),
                             ![r].upstream_ok = TRUE,
                             ![r].upstream_open = TRUE,
                             ![r].body = body]

ConnectOk(r) == ConnectOkFrom(r, Bodies)

\* lines 631-637: the connection is refused or times out, or the upstream
\* answers with an error status and raise_for_status raises
ConnectFail(r) ==
    /\ req[r].pc = "responded"
    /\ StreamFrame
    /\ req' = [req EXCEPT ![r].pc = "except",
                          ![r].upstream_sent = TRUE,
                          ![r].upstream_url = req[r].telegram_file_url,
                          ![r].upstream_headers =
                              UpstreamHeaders(req[r].range_header),
                          ![r].upstream_open = UpstreamOpenAfterExit,
                          ![r].failed = TRUE]

\* variant of YieldChunk that yields every chunk twice
YieldChunkTwice(sent, c) == Append(Append(sent, c), c)

\* the chunks yielded to the client after chunk c was read from upstream
YieldChunk(sent, c) == Append(sent, c)

\* lines 638-639: one more chunk is read and yielded
ReadChunk(r) ==
    /\ req[r].pc = "streaming"
    /\ ~req[r].stalled
    /\ req[r].nread < Len(req[r].body)
    /\ StreamFrame
    /\ req' = [req EXCEPT ![r].nread = @ + 1,
                          ![r].sent = YieldChunk(@, req[r].body[req[r].nread + 1])]

\* line 638: the upstream body is exhausted, the generator returns
ReadEnd(r) ==
    /\ req[r].pc = "streaming"
    /\ ~req[r].stalled
    /\ req[r].nread = Len(req[r].body)
    /\ StreamFrame
    /\ req' = [req EXCEPT ![r].pc = "done",
                          ![r].upstream_open = UpstreamOpenAfterExit]

\* line 638: reading the next chunk raises because the connection broke
ReadFail(r) ==
    /\ req[r].pc = "streaming"
    /\ StreamFrame
    /\ req' = [req EXCEPT ![r].pc = "except",
                          ![r].upstream_open = UpstreamOpenAfterExit,
                          ![r].failed = TRUE]

\* the upstream stops sending: the read of line 638 stays pending
Stall(r) ==
    /\ req[r].pc = "streaming"
    /\ ~req[r].stalled
    /\ StreamFrame
    /\ req' = [req EXCEPT ![r].stalled = TRUE]

\* variant of ReadTimeout for a client built with timeout=None
ReadTimeoutNever(r) ==
    /\ FALSE
    /\ UNCHANGED vars

\* lines 635-638: AsyncClient(timeout=60.0) ends a pending read after 60 s
\* with a ReadTimeout
ReadTimeout(r) ==
    /\ req[r].pc = "streaming"
    /\ req[r].stalled
    /\ StreamFrame
    /\ req' = [req EXCEPT ![r].pc = "except",
                          ![r].upstream_open = UpstreamOpenAfterExit,
                          ![r].failed = TRUE]

\* variant of ExceptChunk that yields a data byte
ExceptChunkData == <<1>>

\* what the except clause of the generator yields, line 644
ExceptChunk == << >>

\* lines 641-644: the error is logged, b'' is yielded, the generator returns
StreamExcept(r) ==
    /\ req[r].pc = "except"
    /\ StreamFrame
    /\ req' = [req EXCEPT ![r].pc = "done",
                          ![r].sent = Append(@, ExceptChunk)]

\* the client goes away during the body: the server stops driving the
\* generator, which stays suspended where it was (lines 638-639)
Disconnect(r) ==
    /\ req[r].pc = "streaming"
    /\ StreamFrame
    /\ req' = [req EXCEPT ![r].pc = "cancelled",
                          ![r].cancelled = TRUE]

\* the suspended generator is closed: GeneratorExit (or CancelledError) is
\* raised at lines 638-639, leaves the `async with` blocks, and is caught by
\* line 641 only if `except Exception` covers it
CloseGenerator(r) ==
    /\ req[r].pc = "cancelled"
    /\ StreamFrame
    /\ req' = [req EXCEPT
                 ![r].pc = IF "GeneratorExit" \in ExceptionSubclasses
                           THEN "except" ELSE "done",
                 ![r].upstream_open = UpstreamOpenAfterExit]

Next ==
    \E r \in Reqs :
        \/ Receive(r)
        \/ Resolve(r)
        \/ GetFileDone(r)
        \/ ConnectOk(r)
        \/ ConnectFail(r)
        \/ ReadChunk(r)
        \/ ReadEnd(r)
        \/ ReadFail(r)
        \/ Stall(r)
        \/ ReadTimeout(r)
        \/ StreamExcept(r)
        \/ Disconnect(r)
        \/ CloseGenerator(r)

Spec == Init /\ [][Next]_vars

(***************************************************************************)
(* Writers of files_collection.  handle_document inserts the record of an  *)
(* upload, or updates it when the id exists (lines 847-854); records are   *)
(* deleted by administrative action on the database, outside main.py.      *)
(***************************************************************************)
SmallRecords ==
    { [filename |-> <<"movie", "mp4">>, file_size |-> 1000],
      [filename |-> <<"clip", "MKV">>, file_size |-> 100] }

\* lines 847-854: insert_one, and update_one on DuplicateKeyError
UpsertRecord ==
    /\ ~files_collection.is_none
    /\ \E id \in Ids, rec \in SmallRecords :
          files_collection' = Collection((id :> rec) @@ files_collection.docs)
    /\ UNCHANGED <<mongo_client, db, content_collection, bot_app,
                   webhook_set, webhook_url, req, bot_vars>>

\* a record is deleted from the collection
DeleteRecord ==
    /\ ~files_collection.is_none
    /\ \E id \in DOMAIN files_collection.docs :
          files_collection' =
              Collection([i \in DOMAIN files_collection.docs \ {id} |->
                             files_collection.docs[i]])
    /\ UNCHANGED <<mongo_client, db, content_collection, bot_app,
                   webhook_set, webhook_url, req, bot_vars>>

(***************************************************************************)
(* Several requests in flight, each slot serving one request after the     *)
(* other, on fewer inputs.                                                 *)
(***************************************************************************)
ConcReqs == {"r1", "r2"}

SmallRequests ==
    { [has_range |-> FALSE, range |-> << >>],
      [has_range |-> TRUE, range |-> BytesEq \o <<"0", "-", "5">>],
      [has_range |-> TRUE, range |-> <<"a", "b", "c">>] }

SmallBodies == { << <<1>> >>, << <<2>>, <<1>> >> }

SmallStores ==
    { Collection(EmptyDict),
      Collection("abc" :> [filename |-> <<"movie", "mp4">>, file_size |-> 1000]),
      Collection(("abc" :> [filename |-> <<"movie", "mp4">>, file_size |-> 1000]) @@
                 ("xyz" :> [filename |-> <<"clip", "MKV">>, file_size |-> 100])) }

ReceiveSmall(r) == ReceiveFrom(r, Ids, SmallRequests, TRUE)

ConnectOkSmall(r) == ConnectOkFrom(r, SmallBodies)

\* a step of request r
StepSmall(r) ==
    \/ ReceiveSmall(r)
    \/ Resolve(r)
    \/ GetFileDone(r)
    \/ ConnectOkSmall(r)
    \/ ConnectFail(r)
    \/ ReadChunk(r)
    \/ ReadEnd(r)
    \/ ReadFail(r)
    \/ Stall(r)
    \/ ReadTimeout(r)
    \/ StreamExcept(r)
    \/ Disconnect(r)
    \/ CloseGenerator(r)

InitConc ==
    /\ InitAppState(SmallStores, {[set |-> TRUE, url |-> "https://app.example/hook"]})
    /\ req = [r \in ConcReqs |-> IdleReq]
    /\ boot = NoBoot
    /\ InitBot

NextConc == \E r \in ConcReqs : StepSmall(r)

\* concurrent requests over an unchanged collection
SpecConc == InitConc /\ [][NextConc]_vars

\* requests for one identifier without Range header, with a one-chunk body
ReceiveStore(r) ==
    ReceiveFrom(r, {"abc"}, {[has_range |-> FALSE, range |-> << >>]}, TRUE)

ConnectOkStore(r) == ConnectOkFrom(r, {<< <<1>> >>})

NextStore ==
    \/ \E r \in ConcReqs :
          \/ ReceiveStore(r)
          \/ Resolve(r)
          \/ GetFileDone(r)
          \/ ConnectOkStore(r)
          \/ ConnectFail(r)
          \/ ReadChunk(r)
          \/ ReadEnd(r)
          \/ ReadFail(r)
          \/ Stall(r)
          \/ ReadTimeout(r)
          \/ StreamExcept(r)
          \/ Disconnect(r)
          \/ CloseGenerator(r)
    \/ UpsertRecord
    \/ DeleteRecord

\* concurrent requests while records are written and deleted
SpecStore == InitConc /\ [][NextStore]_vars

InitLive ==
    /\ InitAppState(SmallStores, {[set |-> TRUE, url |-> "https://app.example/hook"]})
    /\ req = [r \in Reqs |-> IdleReq]
    /\ boot = NoBoot
    /\ InitBot

NextLive == \E r \in Reqs : StepSmall(r)

\* the event loop runs every generator that can take a step; the connection
\* attempt ends one way or the other.  A broken connection, a stalling
\* upstream and a disconnecting client are not bound to happen.
FairLive ==
    \A r \in Reqs :
        /\ WF_vars(ConnectOkSmall(r) \/ ConnectFail(r))
        /\ WF_vars(ReadChunk(r))
        /\ WF_vars(ReadEnd(r))
        /\ WF_vars(ReadTimeout(r))
        /\ WF_vars(StreamExcept(r))
        /\ WF_vars(CloseGenerator(r))

SpecLive == InitLive /\ [][NextLive]_vars /\ FairLive

(***************************************************************************)
(* handle_document, lines 807-905: an upload arrives at the bot.           *)
(***************************************************************************)
\* The size of an upload can exceed what the checker's integers hold, so it
\* is written as gib * 2^30 + rest bytes, with rest below 2^30.
GiB == 1024 * 1024 * 1024

Size(gib, rest) == [gib |-> gib, rest |-> rest]

\* a > b on sizes
Greater(a, b) == a.gib > b.gib \/ (a.gib = b.gib /\ a.rest > b.rest)

\* MAX_FILE_SIZE = 4 * 1024 * 1024 * 1024
MAX_FILE_SIZE == Size(4, 0)

SUPPORTED_VIDEO_FORMATS ==
    {"mp4", "avi", "mkv", "mov", "wmv", "flv", "webm", "m4v", "mpg", "mpeg",
     "ogv", "3gp", "rm", "rmvb", "asf", "divx", "ts", "vob", "ogg", "hevc",
     "av1", "vp9", "h264", "h265"}

SUPPORTED_AUDIO_FORMATS == {"mp3", "wav", "aac", "flac", "ogg", "m4a"}

\* lines 96-105; a filename is never empty here (line 817)
get_file_type(filename) ==
    IF Len(filename) < 2 THEN "unknown"
    ELSE LET ext == Lower(filename[Len(filename)])
         IN  IF ext \in SUPPORTED_VIDEO_FORMATS THEN "video"
             ELSE IF ext \in SUPPORTED_AUDIO_FORMATS THEN "audio"
             ELSE "unknown"

\* the length of the file_id prefix that the callback data carries
ShortIdLen == 8

\* file_id[:8]
ShortId(file_id) == SubSeq(file_id, 1, ShortIdLen)

\* file ids as Telegram gives them, character by character: FileA and
\* FileA2 share their first eight characters
FileA == <<"A", "g", "A", "D", "B", "A", "A", "D", "1">>
FileA2 == <<"A", "g", "A", "D", "B", "A", "A", "D", "2">>
FileB == <<"B", "Q", "A", "C", "A", "g", "I", "A", "7">>

FileIds == {FileA, FileA2, FileB}

Users == {"u1", "u2"}

\* uploaded_date of the record written now: datetime.now() is later than
\* the date of every record written before
Now(collection) ==
    LET dates == { collection.docs[i]["uploaded_date"] : i \in DOMAIN collection.docs }
    IN  IF dates = {} THEN 1
        ELSE 1 + (CHOOSE d \in dates : \A e \in dates : e <= d)

\* lines 837-845
file_record(file_id, user_id, filename, file_size, file_type, now) ==
    [_id |-> file_id,
     user_id |-> user_id,
     filename |-> filename,
     file_size |-> file_size,
     file_type |-> file_type,
     uploaded_date |-> now,
     mime_type |-> get_media_mime_type(filename)]

\* variant of StoreRecord whose update leaves the stored filename as it was
StoreRecordKeepName(collection, record) ==
    IF record["_id"] \in DOMAIN collection.docs
    THEN Collection((record["_id"] :>
                        [record EXCEPT !["filename"] =
                            collection.docs[record["_id"]]["filename"]])
                    @@ collection.docs)
    ELSE Collection((record["_id"] :> record) @@ collection.docs)

\* lines 847-854: insert_one, and on DuplicateKeyError update_one with $set
\* of the whole record
StoreRecord(collection, record) ==
    Collection((record["_id"] :> record) @@ collection.docs)

\* the strings of the callback data, character by character
Mv == <<"m", "v", "_">>
Sr == <<"s", "r", "_">>
St == <<"s", "t", "_">>
CategorizeMovie ==
    <<"c", "a", "t", "e", "g", "o", "r", "i", "z", "e", "_", "m", "o", "v", "i", "e", "_">>
CategorizeSeries ==
    <<"c", "a", "t", "e", "g", "o", "r", "i", "z", "e", "_", "s", "e", "r", "i", "e", "s", "_">>
StoreOnly ==
    <<"s", "t", "o", "r", "e", "_", "o", "n", "l", "y", "_">>

\* lines 865-869
callback_map(file_id) ==
    (Mv \o ShortId(file_id) :> CategorizeMovie \o file_id) @@
    (Sr \o ShortId(file_id) :> CategorizeSeries \o file_id) @@
    (St \o ShortId(file_id) :> StoreOnly \o file_id)

\* lines 874-880: the buttons of the message, each with the file it was made
\* for and its callback_data
Keyboard(file_id) ==
    { [file_id |-> file_id, action |-> "movie", data |-> Mv \o ShortId(file_id)],
      [file_id |-> file_id, action |-> "series", data |-> Sr \o ShortId(file_id)],
      [file_id |-> file_id, action |-> "store", data |-> St \o ShortId(file_id)] }

\* an update without a document, and the documents of an update: file_name
\* is empty when Telegram gave none, file_size is Size(0, 0) when Telegram gave
\* none
NoUpload == [present |-> FALSE]

Document(file_id, file_name, file_size) ==
    [present |-> TRUE, file_id |-> file_id, file_name |-> file_name,
     file_size |-> file_size]

\* the steps of handle_document that can raise: the two replies to the chat
\* and the write to the collection
UploadFaults == {"none", "reply_text", "insert_one", "edit_text"}

\* one upload handled from its first line to its last; the write to the
\* collection and the update of bot_data happen between two awaits
HandleDocumentFrom(documents, users, faults) ==
    /\ \E document \in documents, user_id \in users, fault \in faults :
          LET filename == IF ~document.present \/ document.file_name = << >>
                          THEN <<"unknown_file">> ELSE document.file_name
              file_size == IF ~document.present THEN Size(0, 0)
                           ELSE document.file_size
              file_type == get_file_type(filename)
              done(outcome) ==
                  last' = [op |-> "handle_document", document |-> document,
                           user_id |-> user_id, outcome |-> outcome]
              same == UNCHANGED <<files_collection, bot_data, buttons>>
          IN  IF ~document.present THEN done("no_document") /\ same
              ELSE IF file_type = "unknown" THEN done("unsupported") /\ same
              ELSE IF Greater(file_size, MAX_FILE_SIZE)
              THEN done("too_large") /\ same
              ELSE IF fault = "reply_text" \/ fault = "insert_one"
                      \/ files_collection.is_none
              THEN done("error") /\ same
              ELSE /\ Now(files_collection) <= MaxUploads
                   /\ files_collection' =
                        StoreRecord(files_collection,
                                    file_record(document.file_id, user_id, filename,
                                                file_size, file_type,
                                                Now(files_collection)))
                   /\ bot_data' = callback_map(document.file_id) @@ bot_data
                   /\ IF fault = "edit_text"
                      THEN done("stored_no_message") /\ UNCHANGED buttons
                      ELSE done("stored") /\
                           buttons' = buttons \cup Keyboard(document.file_id)
    /\ UNCHANGED <<mongo_client, db, content_collection, bot_app, webhook_set,
                   webhook_url, req, boot>>

(***************************************************************************)
(* The bot handles one upload after the other.                             *)
(***************************************************************************)
UploadNames ==
    { <<"movie", "mp4">>, <<"song", "wav">>,
      <<"notes", "txt">>, <<"README">>, << >> }

\* up to the limit, and one byte more
UploadSizes == {Size(0, 1000), Size(4, 0), Size(4, 1)}

UploadDocuments ==
    {NoUpload} \cup
    { Document(i, n, z) : i \in {FileA, FileB}, n \in UploadNames, z \in UploadSizes }

HandleDocument == HandleDocumentFrom(UploadDocuments, {"u1"}, UploadFaults)

InitUpload ==
    /\ InitAppState({NoCollection, Collection(EmptyDict)},
                    {[set |-> TRUE, url |-> "https://app.example/hook"]})
    /\ req = [r \in Reqs |-> IdleReq]
    /\ boot = NoBoot
    /\ InitBot

NextUpload == HandleDocument

SpecUpload == InitUpload /\ [][NextUpload]_vars

(***************************************************************************)
(* The relay over records as handle_document wrote them.                   *)
(***************************************************************************)
\* filenames handle_document accepts
MimeNames ==
    { <<"movie", "mp4">>, <<"song", "wav">>, <<"film", "divx">>, <<"clip", "MKV">> }

\* a collection with one upload of 1000 bytes recorded under FileA
MimeStores ==
    { StoreRecord(Collection(EmptyDict),
                  file_record(FileA, "u1", n, 1000, get_file_type(n), 1)) :
        n \in MimeNames }

ReceiveMime(r) == ReceiveFrom(r, {FileA}, SmallRequests, TRUE)

InitMime ==
    /\ InitAppState(MimeStores, {[set |-> TRUE, url |-> "https://app.example/hook"]})
    /\ req = [r \in Reqs |-> IdleReq]
    /\ boot = NoBoot
    /\ InitBot

NextMime ==
    \E r \in Reqs :
        \/ ReceiveMime(r)
        \/ Resolve(r)
        \/ GetFileDone(r)
        \/ ConnectOkStore(r)
        \/ ConnectFail(r)
        \/ ReadChunk(r)
        \/ ReadEnd(r)
        \/ ReadFail(r)
        \/ Stall(r)
        \/ ReadTimeout(r)
        \/ StreamExcept(r)
        \/ Disconnect(r)
        \/ CloseGenerator(r)

SpecMime == InitMime /\ [][NextMime]_vars

(***************************************************************************)
(* main, lines 1232-1265, with initialize_mongodb (127-166),               *)
(* setup_telegram_bot (1168-1193) and setup_webhook (1195-1230).           *)
(* boot.pc is the position of the process; boot.exit_code is empty while   *)
(* the process runs.                                                       *)
(***************************************************************************)
\* max_retries = 3
max_retries == 3

\* get_deployment_domain(): None, or the domain from the environment
Domains == {None, "https://app.example"}

\* f"{domain}{WEBHOOK_PATH}"
WebhookUrl(domain) == IF domain = None THEN None ELSE "https://app.example/hook"

\* the url get_webhook_info can report: the one just set, none, another one
InfoUrls == {"https://app.example/hook", "", "https://other.example/hook"}

\* the module is loaded: app_state is the literal of lines 57-65 and main
\* is about to call initialize_mongodb
InitBoot ==
    /\ mongo_client = None
    /\ db = None
    /\ files_collection = NoCollection
    /\ content_collection = NoCollection
    /\ bot_app = None
    /\ webhook_set = FALSE
    /\ webhook_url = None
    /\ req = [r \in Reqs |-> IdleReq]
    /\ \E domain \in Domains :
          boot = [pc |-> "initialize_mongodb", attempt |-> 0, sleeps |-> << >>,
                  returned |-> None, domain |-> domain, calls |-> << >>,
                  info_url |-> None, exit_code |-> << >>]
    /\ InitBot

BootFrame == UNCHANGED <<req, bot_data, buttons, last>>

\* variant of MongoConnected that publishes the client before the ping
MongoConnectedEarly(ping_ok) ==
    /\ mongo_client' = "MongoClient"
    /\ IF ping_ok
       THEN /\ db' = "Database"
            /\ files_collection' = Collection(EmptyDict)
            /\ content_collection' = Collection(EmptyDict)
       ELSE UNCHANGED <<db, files_collection, content_collection>>

\* lines 133-157: what an attempt does to app_state, the ping having
\* succeeded or not
MongoConnected(ping_ok) ==
    IF ping_ok
    THEN /\ mongo_client' = "MongoClient"
         /\ db' = "Database"
         /\ files_collection' = Collection(EmptyDict)
         /\ content_collection' = Collection(EmptyDict)
    ELSE UNCHANGED <<mongo_client, db, files_collection, content_collection>>

\* variant of RetryDelay that waits after every failure
RetryAfterLast(attempt) == TRUE

\* line 162: whether another attempt follows the failed one
RetryDelay(attempt) == attempt # max_retries - 1

\* lines 130-165: one pass of the loop body; index creation may fail after
\* a successful ping
MongoAttempt ==
    /\ boot.pc = "initialize_mongodb"
    /\ boot.attempt < max_retries
    /\ \E ping_ok \in BOOLEAN, index_ok \in BOOLEAN :
          /\ MongoConnected(ping_ok)
          /\ boot' =
               IF ping_ok
               THEN [boot EXCEPT !.pc = "main", !.returned = "True",
                                 !.calls = IF index_ok THEN <<"create_index">>
                                           ELSE <<"create_index failed">>]
               ELSE IF RetryDelay(boot.attempt)
               THEN [boot EXCEPT !.pc = "sleep"]
               ELSE [boot EXCEPT !.pc = "main", !.returned = "False"]
    /\ UNCHANGED <<bot_app, webhook_set, webhook_url>>
    /\ BootFrame

\* line 165: time.sleep(2 ** attempt), then the next pass
MongoSleep ==
    /\ boot.pc = "sleep"
    /\ boot' = [boot EXCEPT !.pc = "initialize_mongodb",
                            !.attempt = @ + 1,
                            !.sleeps = Append(@, 2 ^ boot.attempt)]
    /\ UNCHANGED app_state_vars
    /\ BootFrame

\* variant of MainAfterMongo that goes on without the database
MainAfterMongoLenient ==
    /\ boot.pc = "main"
    /\ boot' = [boot EXCEPT !.pc = "setup_telegram_bot", !.calls = << >>]
    /\ UNCHANGED app_state_vars
    /\ BootFrame

\* lines 1237-1239
MainAfterMongo ==
    /\ boot.pc = "main"
    /\ boot' = IF boot.returned = "False"
               THEN [boot EXCEPT !.pc = "exit", !.exit_code = <<1>>]
               ELSE [boot EXCEPT !.pc = "setup_telegram_bot", !.calls = << >>]
    /\ UNCHANGED app_state_vars
    /\ BootFrame

\* lines 1242-1245 with 1168-1193: no token or a failing build gives None
\* and exit code 1
SetupTelegramBot ==
    /\ boot.pc = "setup_telegram_bot"
    /\ \E built \in BOOLEAN :
          IF built
          THEN /\ bot_app' = "bot"
               /\ boot' = [boot EXCEPT !.pc = "bot_initialize"]
          ELSE /\ bot_app' = bot_app
               /\ boot' = [boot EXCEPT !.pc = "exit", !.exit_code = <<1>>]
    /\ UNCHANGED <<mongo_client, db, files_collection, content_collection,
                   webhook_set, webhook_url>>
    /\ BootFrame

\* line 1248: an exception of initialize() leaves main and ends the process
BotInitialize ==
    /\ boot.pc = "bot_initialize"
    /\ \E ok \in BOOLEAN :
          boot' = IF ok THEN [boot EXCEPT !.pc = "setup_webhook"]
                  ELSE [boot EXCEPT !.pc = "exit", !.exit_code = <<1>>]
    /\ UNCHANGED app_state_vars
    /\ BootFrame

\* lines 1198-1206
SetupWebhook ==
    /\ boot.pc = "setup_webhook"
    /\ IF boot.domain = None
       THEN /\ boot' = [boot EXCEPT !.pc = "serve"]
            /\ webhook_url' = webhook_url
       ELSE /\ boot' = [boot EXCEPT !.pc = "delete_webhook"]
            /\ webhook_url' = WebhookUrl(boot.domain)
    /\ UNCHANGED <<mongo_client, db, files_collection, content_collection,
                   bot_app, webhook_set>>
    /\ BootFrame

\* lines 1208-1216: delete_webhook, then set_webhook; either can raise,
\* which ends setup_webhook at line 1228
BotCall(at, name, next) ==
    /\ boot.pc = at
    /\ \E ok \in BOOLEAN :
          boot' = IF ok THEN [boot EXCEPT !.pc = next, !.calls = Append(@, name)]
                  ELSE [boot EXCEPT !.pc = "serve"]
    /\ UNCHANGED app_state_vars
    /\ BootFrame

DeleteWebhook == BotCall("delete_webhook", "delete_webhook", "set_webhook")

SetWebhook == BotCall("set_webhook", "set_webhook", "get_webhook_info")

\* variant of Verified that takes any answer of get_webhook_info
VerifiedAny(info_url) == TRUE

\* line 1220
Verified(info_url) == info_url = webhook_url

\* lines 1218-1226
GetWebhookInfo ==
    /\ boot.pc = "get_webhook_info"
    /\ \E ok \in BOOLEAN, info_url \in InfoUrls :
          IF ok
          THEN /\ boot' = [boot EXCEPT !.pc = "serve",
                                       !.calls = Append(@, "get_webhook_info"),
                                       !.info_url = info_url]
               /\ webhook_set' = IF Verified(info_url) THEN TRUE ELSE webhook_set
          ELSE /\ boot' = [boot EXCEPT !.pc = "serve"]
               /\ webhook_set' = webhook_set
    /\ UNCHANGED <<mongo_client, db, files_collection, content_collection,
                   bot_app, webhook_url>>
    /\ BootFrame

(***************************************************************************)
(* health_check, lines 500-522.                                            *)
(***************************************************************************)
\* variant of HealthCode that answers 503 when the bot is missing, too
HealthCodeWithBot(health_status) ==
    IF health_status.status = "ok" /\ health_status.services.telegram_bot = "ok"
    THEN 200 ELSE 503

\* line 522
HealthCode(health_status) == IF health_status.status = "ok" THEN 200 ELSE 503

\* one GET /health; the ping of line 510 succeeds or raises
HealthCheck ==
    /\ boot.pc = "serve"
    /\ \E ping_ok \in BOOLEAN :
          LET mongodb == IF mongo_client # None
                         THEN IF ping_ok THEN "ok" ELSE "error"
                         ELSE "not_connected"
              health_status ==
                  [status |-> IF mongodb = "ok" THEN "ok" ELSE "degraded",
                   services |->
                      [mongodb |-> mongodb,
                       telegram_bot |-> IF bot_app # None THEN "ok"
                                        ELSE "not_initialized",
                       webhook |-> IF webhook_set THEN "set" ELSE "not_set"]]
          IN  last' = [op |-> "health_check",
                       ping_ok |-> ping_ok,
                       body |-> health_status,
                       code |-> HealthCode(health_status),
                       raised |-> FALSE]
    /\ UNCHANGED <<app_state_vars, req, boot, bot_data, buttons>>

(***************************************************************************)
(* The process from its start: main, and once serve runs, requests.        *)
(***************************************************************************)
\* line 1265: requests are taken once serve(app, config) runs
ReceiveServing(r) ==
    /\ boot.pc = "serve"
    /\ ReceiveFrom(r, {"abc"}, SmallRequests, FALSE)

NextBoot ==
    \/ MongoAttempt
    \/ MongoSleep
    \/ MainAfterMongo
    \/ SetupTelegramBot
    \/ BotInitialize
    \/ SetupWebhook
    \/ DeleteWebhook
    \/ SetWebhook
    \/ GetWebhookInfo
    \/ HealthCheck
    \/ \E r \in Reqs : ReceiveServing(r) \/ Resolve(r)

SpecBoot == InitBoot /\ [][NextBoot]_vars

\* every step of main that is enabled is taken: the calls it awaits return
\* or raise
FairBoot ==
    /\ WF_vars(MongoAttempt)
    /\ WF_vars(MongoSleep)
    /\ WF_vars(MainAfterMongo)

SpecBootLive == SpecBoot /\ FairBoot

(***************************************************************************)
(* /health beside the relay, for any app_state.                            *)
(***************************************************************************)
InitHealth ==
    /\ InitAppState({NoCollection} \cup SmallStores, WebhookStates)
    /\ req = [r \in Reqs |-> IdleReq]
    /\ boot = NoBoot
    /\ InitBot

NextHealth ==
    \/ HealthCheck
    \/ \E r \in Reqs : StepSmall(r)

SpecHealth == InitHealth /\ [][NextHealth]_vars

(***************************************************************************)
(* handle_categorization, lines 908-955, with                              *)
(* get_file_id_from_short_callback (957-974), start_movie_categorization   *)
(* (976-1021), start_series_categorization (1023-1072) and store_file_only *)
(* (1074-1099).                                                            *)
(***************************************************************************)
\* str.startswith
StartsWith(s, prefix) ==
    Len(s) >= Len(prefix) /\ SubSeq(s, 1, Len(prefix)) = prefix

\* s.replace(old, ""): every occurrence of old is removed
RECURSIVE ReplaceAll(_, _)
ReplaceAll(s, old) ==
    IF Len(s) < Len(old) THEN s
    ELSE IF SubSeq(s, 1, Len(old)) = old
    THEN ReplaceAll(SubSeq(s, Len(old) + 1, Len(s)), old)
    ELSE <<Head(s)>> \o ReplaceAll(Tail(s), old)

\* the part of s before its first "_", all of s when it has none
RECURSIVE BeforeUnderscore(_)
BeforeUnderscore(s) ==
    IF s = << >> \/ Head(s) = "_" THEN << >>
    ELSE <<Head(s)>> \o BeforeUnderscore(Tail(s))

\* s.split("_")[1] for an s that has a "_"
SplitSecond(s) ==
    LET first == BeforeUnderscore(s)
    IN  BeforeUnderscore(SubSeq(s, Len(first) + 2, Len(s)))

\* lines 957-974: the most recently uploaded file whose id starts with the
\* prefix of the callback data; << >> stands for None
get_file_id_from_short_callback(short_data) ==
    IF files_collection.is_none THEN << >>
    ELSE LET short_id == SplitSecond(short_data)
             recent_files == { i \in DOMAIN files_collection.docs :
                                  StartsWith(i, short_id) }
         IN  IF recent_files = {} THEN << >>
             ELSE CHOOSE i \in recent_files :
                     \A j \in recent_files :
                        files_collection.docs[j]["uploaded_date"] <=
                            files_collection.docs[i]["uploaded_date"]

\* lines 912-950: the action and the file_id the handler arrives at for
\* callback data `data`; action "expired" and "invalid" are the two replies
\* without an action
Dispatch(data) ==
    LET full_data == DictGet(bot_data, data, data)
        short(action) ==
            LET file_id == get_file_id_from_short_callback(data)
            IN  IF file_id # << >> THEN [action |-> action, file_id |-> file_id]
                ELSE [action |-> "expired", file_id |-> << >>]
    IN  IF StartsWith(full_data, CategorizeMovie)
        THEN [action |-> "movie", file_id |-> ReplaceAll(full_data, CategorizeMovie)]
        ELSE IF StartsWith(full_data, CategorizeSeries)
        THEN [action |-> "series", file_id |-> ReplaceAll(full_data, CategorizeSeries)]
        ELSE IF StartsWith(full_data, StoreOnly)
        THEN [action |-> "store", file_id |-> ReplaceAll(full_data, StoreOnly)]
        ELSE IF StartsWith(data, Mv) THEN short("movie")
        ELSE IF StartsWith(data, Sr) THEN short("series")
        ELSE IF StartsWith(data, St) THEN short("store")
        ELSE [action |-> "invalid", file_id |-> << >>]

\* str(ObjectId()): a new id at every call
ObjectId(collection) == Cardinality(DOMAIN collection.docs) + 1

\* f"{domain}/stream/{file_id}", as its three parts
StreamUrl(domain, file_id) ==
    <<IF domain = None THEN "https://your-app.koyeb.app" ELSE domain,
      "/stream/", file_id>>

\* extract_title_from_filename and extract_series_info_from_filename for
\* names that carry none of the patterns they look for: the name without
\* its extension
Title(filename) ==
    IF Len(filename) > 1 THEN SubSeq(filename, 1, Len(filename) - 1) ELSE filename

\* lines 991-1001 and 1038-1050
content_record(oid, file_id, type, filename, added_by, domain) ==
    [_id |-> oid,
     file_id |-> file_id,
     type |-> type,
     title |-> Title(filename),
     filename |-> filename,
     added_by |-> added_by,
     stream_url |-> StreamUrl(domain, file_id),
     status |-> "completed"]

\* variant of FileKnown for a categorization that does not look the file up
FileKnownAlways(file_info) == TRUE

\* lines 980-983 and 1027-1030: `if not file_info` lets the call go on
FileKnown(file_info) == ~NotDocument(file_info)

\* the steps of a categorization that can raise
CategorizeFaults == {"none", "insert_one", "edit_message_text"}

\* start_movie_categorization, start_series_categorization and
\* store_file_only for file_id: what they do to content_collection and how
\* they end
Categorize(action, file_id, added_by, fault) ==
    IF files_collection.is_none
    THEN [outcome |-> "error", inserted |-> << >>]
    ELSE LET file_info == find_one(files_collection, file_id)
         IN  IF ~FileKnown(file_info)
             THEN [outcome |-> "not_found", inserted |-> << >>]
             ELSE IF action = "store"
             THEN [outcome |-> IF fault = "edit_message_text" THEN "error"
                               ELSE "stored",
                   inserted |-> << >>]
             ELSE IF content_collection.is_none \/ fault = "insert_one"
             THEN [outcome |-> "error", inserted |-> << >>]
             ELSE [outcome |-> IF fault = "edit_message_text" THEN "error"
                               ELSE "added",
                   inserted |->
                      <<content_record(ObjectId(content_collection), file_id, action,
                                       DictGet(file_info, "filename", << >>),
                                       added_by, boot.domain)>>]

\* a button is pressed and handle_categorization runs to its end; the
\* insert into content_collection happens between two awaits
HandleCategorization ==
    /\ \E button \in buttons, user_id \in {"u1"}, fault \in CategorizeFaults :
          LET target == Dispatch(button.data)
              result == IF target.action \in {"movie", "series", "store"}
                        THEN Categorize(target.action, target.file_id, user_id, fault)
                        ELSE [outcome |-> target.action, inserted |-> << >>]
          IN  /\ Len(result.inserted) > 0 =>
                    Cardinality(DOMAIN content_collection.docs) < MaxContent
              /\ content_collection' =
                    IF Len(result.inserted) = 0 THEN content_collection
                    ELSE Collection((result.inserted[1]["_id"] :> result.inserted[1])
                                    @@ content_collection.docs)
              /\ last' = [op |-> "handle_categorization",
                          button |-> button,
                          action |-> target.action,
                          file_id |-> target.file_id,
                          known |-> ~files_collection.is_none
                                    /\ target.file_id \in DOMAIN files_collection.docs,
                          outcome |-> result.outcome,
                          inserted |-> result.inserted]
    /\ UNCHANGED <<mongo_client, db, files_collection, bot_app, webhook_set,
                   webhook_url, req, boot, bot_data, buttons>>

\* the process is started again: Application.builder() of line 1176 gives
\* an empty bot_data, while the messages with their buttons stay in the chat
\* and the records stay in the database
LoseBotData ==
    /\ bot_data # EmptyDict
    /\ bot_data' = EmptyDict
    /\ UNCHANGED <<app_state_vars, req, boot, buttons, last>>

(***************************************************************************)
(* The bot: uploads, button presses, restarts.                             *)
(***************************************************************************)
BotDocuments ==
    { Document(i, n, Size(0, 1000)) :
        i \in {FileA, FileA2},
        n \in { <<"movie", "mp4">>, <<"notes", "txt">> } }

HandleDocumentBot == HandleDocumentFrom(BotDocuments, {"u1"}, {"none"})

InitBotSpec ==
    /\ InitAppState({NoCollection, Collection(EmptyDict)},
                    {[set |-> TRUE, url |-> "https://app.example/hook"]})
    /\ req = [r \in Reqs |-> IdleReq]
    /\ \E domain \in Domains : boot = [NoBoot EXCEPT !.domain = domain]
    /\ InitBot

NextBot ==
    \/ HandleDocumentBot
    \/ HandleCategorization
    \/ LoseBotData
    \/ DeleteRecord

SpecBot == InitBotSpec /\ [][NextBot]_vars

TypeOK ==
    \A r \in DOMAIN req :
        /\ req[r].pc \in {"idle", "start", "get_file", "responded",
                          "streaming", "except", "cancelled", "done"}
        /\ req[r].status \in {0, 200, 206, 404, 500, 503}
        /\ req[r].lookup \in {"pending", "unavailable", "error", "missing", "found"}
        /\ req[r].nread \in 0..Len(req[r].body)

(***************************************************************************)
(* Vocabulary of the properties: the shape bytes=<digits>-<optional        *)
(* digits> of a Range header (a match at the start of the text), the      *)
(* numbers it carries, and the text of the headers the properties use.     *)
(***************************************************************************)
DigitSet == { DigitChars[i] : i \in 1..10 }

DigitValue(c) == CHOOSE d \in 0..9 : DigitChars[d + 1] = c

RECURSIVE ParseInt(_)
ParseInt(ds) ==
    IF ds = << >> THEN 0
    ELSE ParseInt(SubSeq(ds, 1, Len(ds) - 1)) * 10 + DigitValue(ds[Len(ds)])

\* number of leading digits of s
RECURSIVE DigitPrefixLen(_)
DigitPrefixLen(s) ==
    IF s = << >> \/ Head(s) \notin DigitSet THEN 0
    ELSE 1 + DigitPrefixLen(Tail(s))

\* the match of bytes=<digits>-<optional digits> at the start of h
RangeMatch(h) ==
    LET p == Len(BytesEq)
        rest1 == SubSeq(h, p + 1, Len(h))
        n1 == DigitPrefixLen(rest1)
        rest2 == SubSeq(rest1, n1 + 1, Len(rest1))
        rest3 == Tail(rest2)
        n2 == DigitPrefixLen(rest3)
        ok == /\ Len(h) >= p
              /\ SubSeq(h, 1, p) = BytesEq
              /\ n1 >= 1
              /\ rest2 # << >>
              /\ Head(rest2) = "-"
    IN  IF ok
        THEN [ok |-> TRUE,
              start |-> ParseInt(SubSeq(rest1, 1, n1)),
              has_end |-> n2 >= 1,
              end |-> ParseInt(SubSeq(rest3, 1, n2))]
        ELSE [ok |-> FALSE, start |-> 0, has_end |-> FALSE, end |-> 0]

Min(a, b) == IF a <= b THEN a ELSE b
Max(a, b) == IF a >= b THEN a ELSE b

\* text of a Content-Range header
ContentRangeText(start, end, total) ==
    <<"b", "y", "t", "e", "s", " ">> \o Digits(start) \o <<"-">> \o Digits(end)
        \o <<"/">> \o Digits(total)

\* the response of request r carries header name with this value
HeaderIs(r, name, value) ==
    /\ name \in DOMAIN req[r].headers
    /\ req[r].headers[name] = value

HeaderAbsent(r, name) == name \notin DOMAIN req[r].headers

\* the identifier of r resolved: a document, an upstream URL, a Response
Resolved(r) ==
    /\ req[r].pc \in {"responded", "streaming", "except", "done"}
    /\ req[r].telegram_file_url # None

\* r asks for bytes=start-end with 0 <= start <= end < total_length
InRangeClosed(r) ==
    LET m == RangeMatch(req[r].range_header)
    IN  /\ req[r].request.has_range
        /\ m.ok
        /\ m.has_end
        /\ m.start <= m.end
        /\ m.end < req[r].file_size

C3_UnknownIdentifier ==
    \A r \in Reqs :
        req[r].lookup = "missing" =>
            /\ req[r].status = 404
            /\ req[r].get_file_calls = 0
            /\ ~req[r].upstream_sent

(***************************************************************************)
(* C4  Locator unavailable is distinguishable from not found.              *)
(***************************************************************************)
\* C4: files_collection None is answered 503, an absent identifier 404, and
\* so the two never get the same status.
C4_UnavailableVsNotFound ==
    \A r \in Reqs :
        /\ req[r].lookup = "unavailable" => req[r].status = 503
        /\ req[r].lookup = "missing" => req[r].status = 404

(***************************************************************************)
(* C5  Malformed Range header.                                             *)
(***************************************************************************)
\* C5: a Range header that has not the shape bytes=<digits>-<optional
\* digits> is handled like no Range header: status 200 and no Range header
\* in the upstream request.
C5_MalformedAsAbsent ==
    \A r \in Reqs :
        /\ Resolved(r)
        /\ req[r].request.has_range
        /\ ~RangeMatch(req[r].range_header).ok
        => /\ req[r].status = 200
           /\ req[r].upstream_sent => "Range" \notin DOMAIN req[r].upstream_headers

(***************************************************************************)
(* C6  Clamping invariant.                                                 *)
(***************************************************************************)
\* the request is ranged: its header has the shape bytes=<digits>-<digits?>
Ranged(r) ==
    /\ req[r].request.has_range
    /\ RangeMatch(req[r].range_header).ok

\* the interval start..end a Range header h denotes on total bytes: an
\* omitted end stands for the last byte
Interval(h, total) ==
    LET m == RangeMatch(h)
    IN  [start |-> m.start, end |-> IF m.has_end THEN m.end ELSE total - 1]

\* start = max(0, min(start, total-1)), end = max(start, min(end, total-1))
Clamped(h, total) ==
    LET i == Interval(h, total)
        start == Max(0, Min(i.start, total - 1))
    IN  [start |-> start, end |-> Max(start, Min(i.end, total - 1))]

\* the upstream request of r carries a Range header of the expected shape
UpstreamRanged(r) ==
    /\ req[r].upstream_sent
    /\ "Range" \in DOMAIN req[r].upstream_headers
    /\ RangeMatch(req[r].upstream_headers["Range"]).ok

\* C6: for every well-formed Range header on a non-empty file the range the
\* relay asks of the upstream, which is the range it serves, satisfies
\* 0 <= start <= end <= total_length - 1.
C6_Clamping ==
    \A r \in Reqs :
        Ranged(r) /\ req[r].upstream_sent /\ req[r].file_size >= 1 =>
            /\ UpstreamRanged(r)
            /\ LET i == Interval(req[r].upstream_headers["Range"], req[r].file_size)
               IN  /\ 0 <= i.start
                   /\ i.start <= i.end
                   /\ i.end <= req[r].file_size - 1

(***************************************************************************)
(* C7  Open-ended range.                                                   *)
(***************************************************************************)
\* r asks for bytes=start- with start inside the content
OpenEnded(r) ==
    LET m == RangeMatch(req[r].range_header)
    IN  /\ req[r].request.has_range
        /\ m.ok
        /\ ~m.has_end
        /\ m.start < req[r].file_size

C8_UpstreamAgreement ==
    \A r \in Reqs :
        req[r].upstream_sent =>
            /\ Ranged(r) /\ req[r].file_size >= 1 =>
                  /\ UpstreamRanged(r)
                  /\ Interval(req[r].upstream_headers["Range"], req[r].file_size) =
                        Clamped(req[r].range_header, req[r].file_size)
            /\ ~req[r].request.has_range =>
                  "Range" \notin DOMAIN req[r].upstream_headers

(***************************************************************************)
(* C9  Pre-stream failures give a clean error status.                      *)
(***************************************************************************)
\* the upstream fetch of r failed before any body byte was read
UpstreamRefused(r) ==
    /\ req[r].upstream_sent
    /\ ~req[r].upstream_ok

\* C9: when the locator fails, or the upstream refuses the connection or
\* answers with an error status, the client gets 404, 503 or 500.
C9_PreStreamFailure ==
    \A r \in Reqs :
        \/ req[r].lookup \in {"unavailable", "error", "missing"}
        \/ UpstreamRefused(r)
        => req[r].status \in {404, 503, 500}

(***************************************************************************)
(* C10  Mid-stream failure.                                                *)
(***************************************************************************)
\* the bytes of a sequence of chunks
RECURSIVE Flatten(_)
Flatten(chunks) ==
    IF chunks = << >> THEN << >> ELSE Head(chunks) \o Flatten(Tail(chunks))

IsPrefix(a, b) == Len(a) <= Len(b) /\ SubSeq(b, 1, Len(a)) = a

\* reading from upstream failed after the response of r had started
MidStreamFailed(r) ==
    /\ req[r].pc = "except"
    /\ req[r].upstream_ok

\* C10: in a step from a mid-stream failure the status and the headers stay,
\* no data byte is added to what was delivered, which is a prefix of the
\* upstream body, and the stream ends.
C10_MidStreamFailure ==
    [][\A r \in Reqs :
          MidStreamFailed(r) /\ req'[r] # req[r] =>
              /\ req'[r].status = req[r].status
              /\ req'[r].headers = req[r].headers
              /\ Flatten(req'[r].sent) = Flatten(req[r].sent)
              /\ IsPrefix(Flatten(req'[r].sent), Flatten(req[r].body))
              /\ req'[r].pc = "done"]_vars

\* a stream failed after its first chunk and before its last, and has ended
C10_Witness ==
    \E r \in Reqs :
        /\ req[r].pc = "done"
        /\ req[r].upstream_ok
        /\ req[r].nread >= 1
        /\ req[r].nread < Len(req[r].body)
        /\ Len(req[r].sent) = req[r].nread + 1
        /\ req[r].sent[Len(req[r].sent)] = ExceptChunk

(***************************************************************************)
(* C11  Error translation at the relay boundary.                           *)
(***************************************************************************)
\* the request of r has got its status
Answered(r) ==
    req[r].pc \in {"responded", "streaming", "except", "cancelled", "done"}

\* C11: every request ends with one status from 200, 206, 404, 503, 500,
\* which never changes afterwards; an exception raised while the record is
\* resolved or the URL obtained ends the request with one of them, and the
\* error page never carries the text of the internal exception.
C11_ErrorTranslation ==
    /\ [](\A r \in DOMAIN req :
            /\ Answered(r) => req[r].status \in {200, 206, 404, 503, 500}
            /\ req[r].lookup \in {"unavailable", "error", "missing"} =>
                  req[r].pc = "done" /\ req[r].status \in {404, 503, 500}
            /\ req[r].error_text \in {None, "standard"})
    /\ [][\A r \in DOMAIN req :
            req[r].status # 0 /\ req'[r].pc # "start" =>
                req'[r].status = req[r].status]_vars

\* find_one raised and the request ended with 500 and the standard page
C11_Witness ==
    \E r \in DOMAIN req :
        /\ req[r].lookup = "error"
        /\ req[r].pc = "done"
        /\ req[r].status = 500
        /\ req[r].error_text = "standard"

(***************************************************************************)
(* C12  Headers of every 200 and 206 response.                             *)
(***************************************************************************)
\* C12: every 200 and every 206 response carries Content-Type with the MIME
\* type of the record's filename, Accept-Ranges: bytes, Cache-Control:
\* public, max-age=3600 and Access-Control-Allow-Origin: *.
C12_ResponseHeaders ==
    \A r \in DOMAIN req :
        req[r].status \in {200, 206} =>
            /\ HeaderIs(r, "Content-Type",
                        get_media_mime_type(
                            files_collection.docs[req[r].file_id]["filename"]))
            /\ HeaderIs(r, "Accept-Ranges", "bytes")
            /\ HeaderIs(r, "Cache-Control", "public, max-age=3600")
            /\ HeaderIs(r, "Access-Control-Allow-Origin", "*")

\* a 206 and a Matroska file, whose type comes from the extension table
C12_Witness ==
    \E r \in DOMAIN req :
        /\ req[r].status = 206
        /\ HeaderIs(r, "Content-Type", "video/x-matroska")
        /\ req[r].pc = "done"

(***************************************************************************)
(* C13  Faithful relay.                                                    *)
(***************************************************************************)
\* C13: while the upstream fetch succeeds the chunks yielded are the chunks
\* read from upstream, in their order, and at the end of the stream they are
\* the whole upstream body.
C13_FaithfulRelay ==
    \A r \in DOMAIN req :
        req[r].upstream_ok /\ ~req[r].failed =>
            /\ req[r].sent = SubSeq(req[r].body, 1, req[r].nread)
            /\ req[r].pc = "done" /\ ~req[r].cancelled => req[r].sent = req[r].body

\* a body of two different chunks was relayed to its end
C13_Witness ==
    \E r \in DOMAIN req :
        /\ req[r].pc = "done"
        /\ req[r].upstream_ok
        /\ ~req[r].failed
        /\ ~req[r].cancelled
        /\ Len(req[r].body) = 2
        /\ req[r].body[1] # req[r].body[2]
        /\ req[r].sent = req[r].body

(***************************************************************************)
(* C14  Idempotence.                                                       *)
(***************************************************************************)
\* the platform and the upstream behaved alike for the requests a and b: the
\* database answered, get_file gave the same result where both called it,
\* and the upstream fetch went the same way where both made it
SameEnvironment(a, b) ==
    /\ a.lookup # "error" /\ b.lookup # "error"
    /\ a.get_file_calls = 1 /\ b.get_file_calls = 1 =>
          a.telegram_file_url = b.telegram_file_url
    /\ a.upstream_sent /\ b.upstream_sent =>
          /\ a.upstream_ok = b.upstream_ok
          /\ a.body = b.body
          /\ a.nread = b.nread
          /\ a.failed = b.failed
          /\ a.cancelled = b.cancelled

\* C14: two requests with the same identifier and the same Range header,
\* served over an unchanged collection and an upstream that behaves alike,
\* get the same status, the same headers and the same body, whatever other
\* requests were served in between.
C14_Idempotence ==
    \A a, b \in DOMAIN req :
        /\ req[a].pc = "done" /\ req[b].pc = "done"
        /\ req[a].file_id = req[b].file_id
        /\ req[a].request = req[b].request
        /\ SameEnvironment(req[a], req[b])
        => /\ req[a].status = req[b].status
           /\ req[a].headers = req[b].headers
           /\ req[a].error_text = req[b].error_text
           /\ req[a].sent = req[b].sent
           /\ req[a].upstream_sent = req[b].upstream_sent
           /\ req[a].upstream_headers = req[b].upstream_headers

\* two ranged requests for the same file were both served to the end
C14_Witness ==
    \E a, b \in DOMAIN req :
        /\ a # b
        /\ req[a].pc = "done" /\ req[b].pc = "done"
        /\ req[a].file_id = req[b].file_id
        /\ req[a].request = req[b].request
        /\ req[a].request.has_range
        /\ SameEnvironment(req[a], req[b])
        /\ req[a].status = 206 /\ req[b].status = 206
        /\ Len(req[a].sent) = 2 /\ req[b].sent = req[a].sent

(***************************************************************************)
(* C15  Request independence.                                              *)
(***************************************************************************)
\* C15: however the steps of concurrent requests interleave, the range
\* header, the status, the headers, the upstream URL, the upstream headers
\* and the chunks of each request come from its own request, its own record
\* and its own upstream body.
C15_Independence ==
    \A r \in DOMAIN req :
        /\ req[r].status \in {200, 206} =>
              LET own == Strip(HeadersGetRange(req[r].request, << >>))
              IN  /\ req[r].range_header = own
                  /\ req[r].status = StatusCode(own)
                  /\ req[r].headers =
                        ResponseHeaders(get_media_mime_type(
                            files_collection.docs[req[r].file_id]["filename"]))
                  /\ req[r].upstream_sent =>
                        /\ req[r].upstream_url = req[r].telegram_file_url
                        /\ req[r].upstream_headers = UpstreamHeaders(own)
        /\ \/ req[r].sent = SubSeq(req[r].body, 1, req[r].nread)
           \/ req[r].sent = SubSeq(req[r].body, 1, req[r].nread) \o <<ExceptChunk>>

\* two requests stream at the same time, for different files, with
\* different Range headers and different upstream bodies
C15_Witness ==
    \E a, b \in DOMAIN req :
        /\ req[a].pc = "streaming" /\ req[b].pc = "streaming"
        /\ req[a].file_id # req[b].file_id
        /\ req[a].status = 200 /\ req[b].status = 206
        /\ req[a].body # req[b].body
        /\ req[a].nread = 1 /\ req[b].nread = 1
        /\ req[a].sent # req[b].sent

(***************************************************************************)
(* C16  Cancellation.                                                      *)
(***************************************************************************)
\* C16: once the client has disconnected during the body, no further chunk
\* is read from upstream or yielded, and the generator is closed with the
\* upstream response and client closed; the upstream is open only while the
\* generator is inside its `async with` blocks, never after it has ended.
C16_Cancellation ==
    /\ [](\A r \in DOMAIN req :
            req[r].upstream_open => req[r].pc \in {"streaming", "cancelled"})
    /\ [][\A r \in DOMAIN req :
            req[r].pc = "cancelled" /\ req'[r] # req[r] =>
                /\ req'[r].pc = "done"
                /\ req'[r].nread = req[r].nread
                /\ req'[r].sent = req[r].sent
                /\ ~req'[r].upstream_open]_vars
    /\ \A r \in Reqs :
          (req[r].pc = "cancelled") ~>
              (req[r].pc = "done" /\ req[r].cancelled /\ ~req[r].upstream_open)

\* the client left after the first of two chunks; the generator was closed
\* with the second chunk unread and the upstream closed
C16_Witness ==
    \E r \in DOMAIN req :
        /\ req[r].pc = "done"
        /\ req[r].cancelled
        /\ req[r].nread = 1
        /\ Len(req[r].body) = 2
        /\ req[r].sent = <<req[r].body[1]>>
        /\ ~req[r].upstream_open

(***************************************************************************)
(* C17  Bounded upstream wait.                                             *)
(***************************************************************************)
\* the Response of r has been returned and its body is not finished
Started(r) == req[r].pc \in {"responded", "streaming", "except", "cancelled"}

\* C17: every started stream eventually ends with its upstream closed; in
\* particular a stream whose upstream has stopped sending ends, by the read
\* timeout of the client unless the client leaves first.
C17_BoundedWait ==
    \A r \in Reqs :
        /\ Started(r) ~> (req[r].pc = "done" /\ ~req[r].upstream_open)
        /\ (req[r].pc = "streaming" /\ req[r].stalled) ~>
              (req[r].pc = "done" /\ req[r].stalled /\ ~req[r].upstream_open
                 /\ (req[r].failed \/ req[r].cancelled))

\* the upstream stalled after the first chunk, the read timed out and the
\* generator ended with the empty chunk
C17_Witness ==
    \E r \in DOMAIN req :
        /\ req[r].pc = "done"
        /\ req[r].stalled
        /\ req[r].failed
        /\ ~req[r].cancelled
        /\ req[r].nread = 1
        /\ req[r].sent = <<req[r].body[1], ExceptChunk>>
        /\ ~req[r].upstream_open

(***************************************************************************)
(* C18  No caching of resolution.                                          *)
(***************************************************************************)
\* the collection holds a document for the identifier of r now
Present(r) ==
    /\ ~files_collection.is_none
    /\ req[r].file_id \in DOMAIN files_collection.docs

\* C18: every request resolves its identifier against the collection as it
\* is when the request is handled, and asks get_file again: a record that
\* was deleted is not found, a record that was changed gives the new size
\* and type, and no 200 or 206 goes out without a get_file call of that
\* request.
C18_NoCaching ==
    /\ [][\A r \in DOMAIN req :
            req[r].pc = "start" /\ req'[r].pc # "start" =>
               /\ req'[r].lookup = "found" =>
                     /\ Present(r)
                     /\ req'[r].file_size =
                           files_collection.docs[req[r].file_id]["file_size"]
                     /\ req'[r].mime_type =
                           get_media_mime_type(
                               files_collection.docs[req[r].file_id]["filename"])
               /\ req'[r].lookup = "missing" => ~Present(r)
               /\ Present(r) => req'[r].lookup \in {"found", "error"}
               /\ req'[r].lookup = "found" /\ bot_app # None
                     /\ req'[r].file_size <= TELEGRAM_FILE_SIZE_LIMIT =>
                     req'[r].pc = "get_file" /\ req'[r].get_file_calls = 1]_vars
    /\ [](\A r \in DOMAIN req :
            req[r].status \in {200, 206} =>
                req[r].lookup = "found" /\ req[r].get_file_calls = 1)

\* one request was served the record of an identifier, another request for
\* the same identifier did not find it, the record being gone
C18_Witness ==
    \E a, b \in DOMAIN req :
        /\ req[a].file_id = req[b].file_id
        /\ req[a].pc = "done" /\ req[a].status = 200
        /\ req[a].get_file_calls = 1
        /\ req[b].pc = "done" /\ req[b].lookup = "missing"
        /\ req[b].get_file_calls = 0
        /\ ~Present(b)

(***************************************************************************)
(* C19  The relay is read-only.                                            *)
(***************************************************************************)
\* C19: no step of a stream request, successful or failing, changes
\* files_collection, content_collection or any other entry of app_state.
C19_ReadOnly ==
    [][(\E r \in DOMAIN req : req'[r] # req[r]) => UNCHANGED app_state_vars]_vars

\* a request was served to its end and another outcome, a failed one, is
\* in the same run, with the database connected and the webhook set
C19_Witness ==
    /\ ~files_collection.is_none
    /\ DOMAIN files_collection.docs # {}
    /\ webhook_set
    /\ \E r \in DOMAIN req :
          /\ req[r].pc = "done"
          /\ req[r].status = 200
          /\ req[r].failed
          /\ Len(req[r].sent) = 2

(***************************************************************************)
(* C20  Oversized or unlocatable content.                                  *)
(***************************************************************************)
\* C20: for a record larger than TELEGRAM_FILE_SIZE_LIMIT get_file is not
\* called, and when get_file raises no URL is obtained; in both cases the
\* status is 404 and no upstream fetch is made; a record of exactly the
\* limit gets its get_file call.
C20_FailClosed ==
    \A r \in DOMAIN req :
        req[r].lookup = "found" =>
            /\ req[r].file_size > TELEGRAM_FILE_SIZE_LIMIT =>
                  /\ req[r].get_file_calls = 0
                  /\ req[r].status = 404
                  /\ ~req[r].upstream_sent
            /\ req[r].get_file_calls = 1 /\ req[r].pc = "done"
                  /\ req[r].telegram_file_url = None =>
                  /\ req[r].status = 404
                  /\ ~req[r].upstream_sent
            /\ req[r].file_size = TELEGRAM_FILE_SIZE_LIMIT /\ bot_app # None =>
                  req[r].get_file_calls = 1

(***************************************************************************)
(* C21  MIME resolution order.                                             *)
(***************************************************************************)
\* the extension of a filename, lower-cased, "" when it has none
Ext(filename) ==
    IF Len(filename) > 1 THEN Lower(filename[Len(filename)]) ELSE ""

\* filenames with and without extension, known and unknown
AnyNames ==
    MimeNames \cup { <<"notes", "txt">>, <<"README">>, <<"unknown_file">>,
                     <<"a", "b", "xyz">> }

Ready ==
    /\ ~files_collection.is_none
    /\ ~content_collection.is_none
    /\ bot_app # None

\* main is inside setup_webhook
InSetupWebhook ==
    boot.pc \in {"setup_webhook", "delete_webhook", "set_webhook", "get_webhook_info"}

\* C22: the server runs only after initialize_mongodb returned True and the
\* bot was built and initialized, so whenever it runs, and whenever a
\* request is handled, files_collection, content_collection and bot_app are
\* set; a failed database or bot setup ends the process with exit code 1
\* before any request is taken; whatever happens in setup_webhook, main
\* goes on to serve.
C22_StartupOrdering ==
    /\ [](boot.pc = "serve" => Ready /\ boot.returned = "True")
    /\ [](\A r \in DOMAIN req : req[r].pc # "idle" => Ready)
    /\ [](last.op # None => Ready)
    /\ [](boot.pc = "exit" =>
            /\ boot.exit_code = <<1>>
            /\ \A r \in DOMAIN req : req[r].pc = "idle"
            /\ last.op = None)
    /\ [][/\ boot.pc = "main" /\ boot.returned = "False" => boot'.pc = "exit"
          /\ boot.pc = "setup_telegram_bot" /\ bot_app' = None => boot'.pc = "exit"
          /\ boot.pc = "exit" => boot' = boot
          /\ InSetupWebhook /\ boot' # boot =>
                boot'.exit_code = << >> /\ (boot'.pc = "serve" \/ InSetupWebhook')]_vars

\* the webhook could not be verified, and the server runs and has answered
\* a request
C22_Witness ==
    /\ boot.pc = "serve"
    /\ boot.domain # None
    /\ ~webhook_set
    /\ boot.calls = <<"delete_webhook", "set_webhook", "get_webhook_info">>
    /\ \E r \in DOMAIN req : req[r].pc = "done"

(***************************************************************************)
(* C23  Retry logic of initialize_mongodb.                                 *)
(***************************************************************************)
\* C23: initialize_mongodb makes at most max_retries attempts; it returns
\* True at the first attempt whose ping succeeds and False exactly when the
\* last of the attempts has failed; it has slept 2^attempt seconds after
\* each failed attempt but the last, that is 1 s and then 2 s; and it
\* returns.
C23_RetryLogic ==
    /\ [](/\ boot.attempt \in 0..(max_retries - 1)
          /\ Len(boot.sleeps) = boot.attempt
          /\ \A i \in 1..Len(boot.sleeps) : boot.sleeps[i] = 2 ^ (i - 1)
          /\ Len(boot.sleeps) <= max_retries - 1
          /\ boot.returned = "False" =>
                /\ boot.attempt = max_retries - 1
                /\ boot.sleeps = <<1, 2>>
                /\ mongo_client = None
          /\ boot.returned = "True" =>
                /\ mongo_client # None
                /\ Len(boot.sleeps) = boot.attempt)
    /\ [][boot.pc = "initialize_mongodb" /\ boot' # boot =>
            /\ mongo_client' # None => boot'.returned = "True" /\ boot'.pc = "main"
            /\ mongo_client' = None /\ boot.attempt = max_retries - 1 =>
                  boot'.returned = "False" /\ boot'.pc = "main"
                     /\ boot'.sleeps = boot.sleeps
            /\ mongo_client' = None /\ boot.attempt < max_retries - 1 =>
                  boot'.returned = None /\ boot'.pc = "sleep"]_vars
    /\ (boot.pc = "initialize_mongodb") ~> (boot.returned # None)

\* three attempts failed, with 1 s and 2 s between them
C23_Witness ==
    /\ boot.returned = "False"
    /\ boot.attempt = 2
    /\ boot.sleeps = <<1, 2>>
    /\ boot.pc = "exit"

(***************************************************************************)
(* C24  The database handles are set together.                             *)
(***************************************************************************)
HandlesNone ==
    /\ mongo_client = None
    /\ db = None
    /\ files_collection.is_none
    /\ content_collection.is_none

HandlesSet ==
    /\ mongo_client # None
    /\ db # None
    /\ ~files_collection.is_none
    /\ ~content_collection.is_none

\* C24: mongo_client, db, files_collection and content_collection are all
\* None or all set; they get set in the attempt whose ping succeeded and
\* only there, stay None through every failed attempt, and stay set; when
\* index creation fails they are set all the same and initialize_mongodb
\* returns True.
C24_HandlesTogether ==
    /\ [](/\ HandlesNone \/ HandlesSet
          /\ HandlesSet <=> boot.returned = "True"
          /\ boot.pc = "sleep" \/ boot.returned = "False" => HandlesNone
          /\ boot.calls = <<"create_index failed">> =>
                HandlesSet /\ boot.returned = "True")
    /\ [][/\ HandlesNone /\ ~HandlesNone' =>
                /\ boot.pc = "initialize_mongodb"
                /\ HandlesSet'
                /\ boot'.returned = "True"
          /\ HandlesSet =>
                UNCHANGED <<mongo_client, db, files_collection, content_collection>>
       ]_<<mongo_client, db, files_collection, content_collection, boot>>

\* the first attempt failed, the second connected and its index creation
\* failed: the handles are set and True was returned
C24_Witness ==
    /\ boot.pc = "main"
    /\ boot.attempt = 1
    /\ boot.calls = <<"create_index failed">>
    /\ boot.returned = "True"
    /\ HandlesSet

(***************************************************************************)
(* C25  Categorization buttons target their own file.                      *)
(***************************************************************************)
\* C25: whenever a Movie, Series or Store button of a recorded file is
\* pressed, the action of that button runs with the file_id of the upload
\* the button was made for, whatever was uploaded in between and whether or
\* not bot_data still holds the entry.
C25_ButtonsTargetOwnFile ==
    /\ last.op = "handle_categorization"
    /\ last.button.file_id \in DOMAIN files_collection.docs
    => /\ last.action = last.button.action
       /\ last.file_id = last.button.file_id

(***************************************************************************)
(* C26  Upload recording in handle_document.                               *)
(***************************************************************************)
\* the documents of collection c other than the one under id
Others(c, id) == [i \in DOMAIN c.docs \ {id} |-> c.docs[i]]

\* C26: an upload without a supported extension or larger than
\* MAX_FILE_SIZE leaves files_collection as it was; an upload that is
\* accepted and stored leaves, under its file_id, the record of this upload
\* (filename, size, type, MIME type, user), whether the id was new or
\* already there, and leaves every other record alone; an accepted upload
\* is stored unless a call to Telegram or to the database fails.
C26_UploadRecording ==
    [][last'.op = "handle_document" =>
         LET d == last'.document
             name == IF d.file_name = << >> THEN <<"unknown_file">> ELSE d.file_name
             rejected == \/ ~d.present
                         \/ get_file_type(name) = "unknown"
                         \/ Greater(d.file_size, MAX_FILE_SIZE)
             stored == last'.outcome \in {"stored", "stored_no_message"}
         IN  /\ rejected => files_collection' = files_collection /\ ~stored
             /\ ~rejected /\ last'.outcome # "error" => stored
             /\ ~stored => files_collection' = files_collection
             /\ stored =>
                   /\ DOMAIN files_collection'.docs =
                         DOMAIN files_collection.docs \cup {d.file_id}
                   /\ Others(files_collection', d.file_id) =
                         Others(files_collection, d.file_id)
                   /\ LET rec == files_collection'.docs[d.file_id]
                      IN  /\ rec["_id"] = d.file_id
                          /\ rec["filename"] = d.file_name
                          /\ rec["file_size"] = d.file_size
                          /\ rec["user_id"] = last'.user_id
                          /\ rec["file_type"] \in {"video", "audio"}
                          /\ rec["mime_type"] = get_media_mime_type(d.file_name)
                          /\ \A i \in DOMAIN files_collection.docs :
                                files_collection.docs[i]["uploaded_date"] <
                                    rec["uploaded_date"]
    ]_vars

\* a file of exactly MAX_FILE_SIZE was uploaded again under an id that was
\* already recorded with another name, and the record is the new upload's
C26_Witness ==
    /\ last.op = "handle_document"
    /\ last.outcome = "stored"
    /\ last.document.file_size = MAX_FILE_SIZE
    /\ last.document.file_name = <<"song", "wav">>
    /\ DOMAIN files_collection.docs = {last.document.file_id}
    /\ files_collection.docs[last.document.file_id]["uploaded_date"] = 2
    /\ files_collection.docs[last.document.file_id]["filename"] = <<"song", "wav">>

(***************************************************************************)
(* C27  Content records reference existing files.                          *)
(***************************************************************************)
\* the content records that a step adds
NewContent == DOMAIN content_collection'.docs \ DOMAIN content_collection.docs

\* C27: a categorization inserts nothing when its file_id is not in
\* files_collection; what it inserts is one new record, beside the records
\* already there, whose file_id is in files_collection at that moment, of
\* the type of the action, with status 'completed' and a stream_url that
\* ends in /stream/<file_id>; a movie or series categorization that ends
\* well has inserted one record, and storing only inserts none.
C27_ContentReferencesFile ==
    [][/\ last'.op = "handle_categorization"
       /\ last' # last \/ content_collection' # content_collection
       =>
         /\ \A i \in DOMAIN content_collection.docs :
               /\ i \in DOMAIN content_collection'.docs
               /\ content_collection'.docs[i] = content_collection.docs[i]
         /\ Cardinality(NewContent) <= 1
         /\ ~last'.known => NewContent = {}
         /\ last'.action \notin {"movie", "series"} => NewContent = {}
         /\ last'.outcome = "added" => Cardinality(NewContent) = 1
         /\ \A i \in NewContent :
               LET rec == content_collection'.docs[i]
               IN  /\ rec["file_id"] \in DOMAIN files_collection.docs
                   /\ rec["file_id"] = last'.file_id
                   /\ rec["type"] = last'.action
                   /\ rec["status"] = "completed"
                   /\ Len(rec["stream_url"]) = 3
                   /\ rec["stream_url"][2] = "/stream/"
                   /\ rec["stream_url"][3] = rec["file_id"]
                   /\ rec["filename"] =
                         files_collection.docs[rec["file_id"]]["filename"]
    ]_vars

\* a file was added as a movie and then as a series episode: two records,
\* both for this file
C27_Witness ==
    /\ last.op = "handle_categorization"
    /\ last.outcome = "added"
    /\ last.action = "series"
    /\ Cardinality(DOMAIN content_collection.docs) = 2
    /\ \A i \in DOMAIN content_collection.docs :
          content_collection.docs[i]["file_id"] = last.file_id
    /\ \E i \in DOMAIN content_collection.docs :
          content_collection.docs[i]["type"] = "movie"

(***************************************************************************)
(* C28  Webhook state in setup_webhook.                                    *)
(***************************************************************************)
WebhookCalls == <<"delete_webhook", "set_webhook", "get_webhook_info">>

\* C28: webhook_set is True only when delete_webhook, set_webhook and
\* get_webhook_info were called in this order and get_webhook_info reported
\* the computed webhook_url, and it becomes True in the step that reads that
\* answer; whenever webhook_set is True, webhook_url is set; without a
\* deployment domain webhook_set stays False and webhook_url stays None;
\* webhook_set never goes back to False.
C28_WebhookState ==
    /\ [](webhook_set =>
             /\ webhook_url # None
             /\ webhook_url = WebhookUrl(boot.domain)
             /\ boot.calls = WebhookCalls
             /\ boot.info_url = webhook_url)
    /\ [](boot.domain = None => ~webhook_set /\ webhook_url = None)
    /\ [][/\ webhook_set => webhook_set'
          /\ ~webhook_set /\ webhook_set' =>
                /\ boot.pc = "get_webhook_info"
                /\ boot.calls = <<"delete_webhook", "set_webhook">>
                /\ boot'.info_url = webhook_url
          /\ webhook_url # None => webhook_url' = webhook_url]_vars

\* the server runs with a verified webhook
C28_Witness ==
    /\ boot.pc = "serve"
    /\ webhook_set
    /\ webhook_url = "https://app.example/hook"
    /\ boot.calls = WebhookCalls

(***************************************************************************)
(* C29  Health status code.                                                *)
(***************************************************************************)
\* C29: /health answers 200 exactly when there is a MongoDB client and its
\* ping succeeds, and 503 otherwise (no client, or the ping raises); the
\* body reports the bot and the webhook as app_state has them, and neither
\* changes the status code; the handler returns a response and does not
\* raise.
C29_HealthStatusCode ==
    last.op = "health_check" =>
        /\ last.code = 200 <=> (mongo_client # None /\ last.ping_ok)
        /\ last.code = 503 <=> (mongo_client = None \/ ~last.ping_ok)
        /\ ~last.raised
        /\ last.body.status = "ok" <=> last.code = 200
        /\ last.body.services.mongodb = "not_connected" <=> mongo_client = None
        /\ last.body.services.telegram_bot = "ok" <=> bot_app # None
        /\ last.body.services.webhook = "set" <=> webhook_set

\* 200 is answered while the bot is not initialized and no webhook is set
C29_Witness ==
    /\ last.op = "health_check"
    /\ last.code = 200
    /\ bot_app = None
    /\ ~webhook_set
    /\ last.body.services.telegram_bot = "not_initialized"
    /\ last.body.services.webhook = "not_set"

====
